---- MODULE Spec2Model ----
(***************************************************************************)
(* Model of the theme/style manager: ThemeManager (themes.py) and          *)
(* AppStyles (styles.py), together with the part of the ttk style engine   *)
(* (ttk.Style) that the two classes drive.                                 *)
(*                                                                         *)
(* Python values are tagged records.  A str is kept as the sequence of its *)
(* "."-separated segments, i.e. as what str.split('.') returns: the str    *)
(* 'colors.bg' is <<"colors", "bg">>, the str '#f8f9fa' is <<"#f8f9fa">>.  *)
(* Every str is exactly one non-empty sequence of dot-free segments, so    *)
(* the representation loses nothing; startswith('colors.') and             *)
(* split('.')[1] are computed on it below.  A dict is a function whose     *)
(* DOMAIN is the set of its keys.                                          *)
(***************************************************************************)
EXTENDS Integers, Sequences, FiniteSets, TLC

VARIABLES
    current_theme,  \* ThemeManager.current_theme
    themes,         \* ThemeManager.themes
    style,          \* ThemeManager.style, the ttk.Style engine
    styles,         \* AppStyles.styles
    call,           \* the last call made on the two objects and its outcome
    prevCall        \* the call before it

vars == <<current_theme, themes, style, styles, call, prevCall>>

---------------------------------------------------------------------------
(* Python values *)

\* a str without a dot
Str(s) == [t |-> "str", parts |-> <<s>>]

\* the str  a + "." + b
Dotted(a, b) == [t |-> "str", parts |-> <<a, b>>]

IntVal(n) == [t |-> "int", n |-> n]

Tuple(items) == [t |-> "tuple", items |-> items]

None == [t |-> "none"]

\* the value standing for a raised KeyError of a dict lookup
KeyError == [t |-> "KeyError"]

EmptyDict == [k \in {} |-> None]

\* d[k], raising KeyError when k is no key of d
Lookup(d, k) == IF k \in DOMAIN d THEN d[k] ELSE KeyError

\* d after d[k] = v
DictSet(d, k, v) == [x \in DOMAIN d \cup {k} |-> IF x = k THEN v ELSE d[x]]

\* d after d.update(new)
DictUpdate(d, new) ==
    [x \in DOMAIN d \cup DOMAIN new |-> IF x \in DOMAIN new THEN new[x] ELSE d[x]]

\* isinstance(value, str)
isinstance_str(value) == value.t = "str"

\* value.startswith(domain + '.'), for a dot-free domain: the str has a dot
\* and its first segment is the domain
startswith(value, domain) == Len(value.parts) >= 2 /\ value.parts[1] = domain

\* value.split('.')
split(value) == value.parts

---------------------------------------------------------------------------
(* ThemeManager: the two theme tables *)

_get_light_theme ==
    [name |-> "light",
     colors |-> [primary       |-> Str("#4a6fa5"),
                 secondary     |-> Str("#6c757d"),
                 success       |-> Str("#28a745"),
                 danger        |-> Str("#dc3545"),
                 warning       |-> Str("#ffc107"),
                 info          |-> Str("#17a2b8"),
                 bg            |-> Str("#f8f9fa"),
                 fg            |-> Str("#212529"),
                 entry_bg      |-> Str("#ffffff"),
                 select_bg     |-> Str("#e2e6ea"),
                 select_fg     |-> Str("#000000"),
                 border        |-> Str("#ced4da"),
                 button_bg     |-> Str("#e9ecef"),
                 button_active |-> Str("#d3d9df"),
                 text_bg       |-> Str("#ffffff")],
     fonts |-> [default |-> Tuple(<<"Segoe UI", 10>>),
                heading |-> Tuple(<<"Segoe UI", 12, "bold">>),
                title   |-> Tuple(<<"Segoe UI", 14, "bold">>)]]

_get_dark_theme ==
    [name |-> "dark",
     colors |-> [primary       |-> Str("#5a86c2"),
                 secondary     |-> Str("#5c636a"),
                 success       |-> Str("#2ecc71"),
                 danger        |-> Str("#e74c3c"),
                 warning       |-> Str("#f39c12"),
                 info          |-> Str("#3498db"),
                 bg            |-> Str("#2d2d2d"),
                 fg            |-> Str("#e0e0e0"),
                 entry_bg      |-> Str("#1e1e1e"),
                 select_bg     |-> Str("#3d3d3d"),
                 select_fg     |-> Str("#ffffff"),
                 border        |-> Str("#444444"),
                 button_bg     |-> Str("#3d3d3d"),
                 button_active |-> Str("#4d4d4d"),
                 text_bg       |-> Str("#252525")],
     fonts |-> [default |-> Tuple(<<"Segoe UI", 10>>),
                heading |-> Tuple(<<"Segoe UI", 12, "bold">>),
                title   |-> Tuple(<<"Segoe UI", 14, "bold">>)]]

\* self.themes as __init__ builds it
ThemeManager_themes == [light |-> _get_light_theme, dark |-> _get_dark_theme]

\* the order in which self.themes.values() yields the themes (insertion order)
ThemeOrder == <<"light", "dark">>

---------------------------------------------------------------------------
(* The ttk.Style engine, as far as the two classes use it.  The engine is   *)
(* a record: the registered theme names, each theme's parent, the theme in  *)
(* use, and per theme the options and the state maps configured for each    *)
(* style name.  Only what this program configures is kept; the options the  *)
(* built-in themes ship with are not.                                       *)

\* the themes Tk registers by itself (X11 build)
BuiltinThemes == {"alt", "clam", "classic", "default"}

\* ttk.Style() of a fresh interpreter
ttk_Style ==
    [themes  |-> BuiltinThemes,
     parent  |-> [th \in BuiltinThemes |-> "none"],
     current |-> "default",
     conf    |-> [th \in BuiltinThemes |-> EmptyDict],
     map     |-> [th \in BuiltinThemes |-> EmptyDict]]

\* the outcome of an engine call that raised nothing
Done(st) == [exc |-> "None", st |-> st]

\* the outcome of a call that raised exc and left the engine as st
Raised(exc, st) == [exc |-> exc, st |-> st]

\* style.theme_create(themename, parent=parent): TclError when the name is
\* taken or the parent is unknown
theme_create(st, themename, parent) ==
    IF themename \in st.themes \/ parent \notin st.themes
    THEN Raised("TclError", st)
    ELSE Done([st EXCEPT !.themes = @ \cup {themename},
                         !.parent = DictSet(@, themename, parent),
                         !.conf   = DictSet(@, themename, EmptyDict),
                         !.map    = DictSet(@, themename, EmptyDict)])

\* style.theme_use(themename): TclError when no such theme is registered
theme_use(st, themename) ==
    IF themename \notin st.themes
    THEN Raised("TclError", st)
    ELSE Done([st EXCEPT !.current = themename])

\* style.configure(sname, **kw): sets the given options of style sname in
\* the theme in use and keeps its other options
configure(st, sname, kw) ==
    [st EXCEPT !.conf[st.current] =
        DictSet(@, sname, DictUpdate(IF sname \in DOMAIN @ THEN @[sname] ELSE EmptyDict, kw))]

\* style.map(sname, **kw): the same for the state maps
style_map(st, sname, kw) ==
    [st EXCEPT !.map[st.current] =
        DictSet(@, sname, DictUpdate(IF sname \in DOMAIN @ THEN @[sname] ELSE EmptyDict, kw))]

---------------------------------------------------------------------------
(* ThemeManager *)

\* the configure and map calls of _configure_theme, on the theme in use
configure_widgets(st, colors, fonts) ==
    LET s1 == configure(st, ".",
                  [background  |-> colors.bg,
                   foreground  |-> colors.fg,
                   font        |-> fonts.default,
                   borderwidth |-> IntVal(1)])
        s2 == configure(s1, "TFrame", [background |-> colors.bg])
        s3 == configure(s2, "TLabel",
                  [background |-> colors.bg,
                   foreground |-> colors.fg])
        s4 == configure(s3, "TEntry",
                  [fieldbackground |-> colors.entry_bg,
                   foreground      |-> colors.fg,
                   insertcolor     |-> colors.fg,
                   bordercolor     |-> colors.border,
                   lightcolor      |-> colors.border,
                   darkcolor       |-> colors.border])
        s5 == configure(s4, "TButton",
                  [background     |-> colors.button_bg,
                   foreground     |-> colors.fg,
                   bordercolor    |-> colors.border,
                   focusthickness |-> IntVal(3),
                   focuscolor     |-> colors.primary])
        s6 == style_map(s5, "TButton",
                  [background |-> << <<"active", colors.button_active>> >>,
                   foreground |-> << <<"active", colors.fg>> >>])
        s7 == configure(s6, "Treeview",
                  [background      |-> colors.entry_bg,
                   foreground      |-> colors.fg,
                   fieldbackground |-> colors.entry_bg,
                   rowheight       |-> IntVal(25)])
        s8 == configure(s7, "Treeview.Heading",
                  [background |-> colors.button_bg,
                   foreground |-> colors.fg,
                   font       |-> fonts.heading])
    IN  style_map(s8, "Treeview",
                  [background |-> << <<"selected", colors.select_bg>> >>,
                   foreground |-> << <<"selected", colors.select_fg>> >>])

\* ThemeManager._configure_theme(theme) on engine st: what it raised and the
\* engine it left
_configure_theme(st, theme) ==
    LET created == theme_create(st, theme.name, "alt")
        used    == theme_use(created.st, theme.name)
    IN  IF created.exc # "None" THEN created
        ELSE IF used.exc # "None" THEN used
        ELSE Done(configure_widgets(used.st, theme.colors, theme.fonts))

\* the loop of setup_themes from the i-th theme on: the first exception ends it
RECURSIVE setup_themes_from(_, _, _)
setup_themes_from(i, st, ths) ==
    IF i > Len(ThemeOrder) THEN Done(st)
    ELSE LET r == _configure_theme(st, ths[ThemeOrder[i]])
         IN  IF r.exc # "None" THEN r
             ELSE setup_themes_from(i + 1, r.st, ths)

\* ThemeManager.setup_themes()
setup_themes(st, ths) == setup_themes_from(1, st, ths)

\* toggled with the else branch naming the wrong theme
toggled_stuck(ct) == IF ct = "light" THEN "dark" ELSE "dark"

\* the name toggle_theme assigns to self.current_theme
toggled(ct) == IF ct = "light" THEN "dark" ELSE "light"

\* toggle_theme returning the theme looked up before the name was flipped
toggle_theme_stale(ct, st, ths) ==
    LET new  == IF ct = "light" THEN "dark" ELSE "light"
        used == theme_use(st, new)
    IN  [current_theme |-> new,
         exc |-> used.exc,
         st  |-> used.st,
         ret |-> IF used.exc = "None" THEN Lookup(ths, ct) ELSE None]

\* ThemeManager.toggle_theme(): the new current_theme, what the call raised,
\* the engine it left and what it returned.  The name is assigned before the
\* engine is asked to switch.
toggle_theme(ct, st, ths) ==
    LET new  == toggled(ct)
        used == theme_use(st, new)
    IN  [current_theme |-> new,
         exc |-> used.exc,
         st  |-> used.st,
         ret |-> IF used.exc = "None" THEN Lookup(ths, new) ELSE None]

\* ThemeManager.get_current_theme()
get_current_theme(ct, ths) == Lookup(ths, ct)

\* get_style reading the theme that was active at construction
get_style_initial(ct, ths, style_name) ==
    IF style_name = "Action.TButton"
    THEN [background |-> ths["light"].colors.button_bg,
          foreground |-> ths["light"].colors.fg,
          font       |-> ths["light"].fonts.default,
          padding    |-> IntVal(5)]
    ELSE None

\* get_style looking every other name up in a table that does not hold it
get_style_lookup(ct, ths, style_name) ==
    IF style_name = "Action.TButton"
    THEN [background |-> ths[ct].colors.button_bg,
          foreground |-> ths[ct].colors.fg,
          font       |-> ths[ct].fonts.default,
          padding    |-> IntVal(5)]
    ELSE Lookup(EmptyDict, style_name)

\* ThemeManager.get_style(style_name)
get_style(ct, ths, style_name) ==
    IF style_name = "Action.TButton"
    THEN LET theme == get_current_theme(ct, ths)
         IN  [background |-> theme.colors.button_bg,
              foreground |-> theme.colors.fg,
              font       |-> theme.fonts.default,
              padding    |-> IntVal(5)]
    ELSE None

---------------------------------------------------------------------------
(* AppStyles.  Style names and dict keys are never parsed by the code and   *)
(* stay plain strings; the values of the table are Python values.           *)

\* self.styles as __init__ builds it
AppStyles_styles ==
    ("Main.TFrame" :> [background |-> Dotted("colors", "bg")])
    @@ ("Header.TLabel" :> [font       |-> Dotted("fonts", "heading"),
                            background |-> Dotted("colors", "bg"),
                            foreground |-> Dotted("colors", "primary")])
    @@ ("Action.TButton" :> [font       |-> Dotted("fonts", "default"),
                             padding    |-> IntVal(5),
                             background |-> Dotted("colors", "button_bg"),
                             foreground |-> Dotted("colors", "fg")])
    @@ ("Login.TLabel" :> [font |-> Dotted("fonts", "default")])
    @@ ("Login.TButton" :> [font    |-> Dotted("fonts", "default"),
                            padding |-> IntVal(5)])
    @@ ("Login.TEntry" :> [font    |-> Dotted("fonts", "default"),
                           padding |-> IntVal(5)])
    @@ ("Treeview.Heading" :> [font       |-> Dotted("fonts", "heading"),
                               background |-> Dotted("colors", "button_bg"),
                               foreground |-> Dotted("colors", "fg")])

\* the order in which self.styles.items() yields the styles (insertion order)
StyleOrder ==
    <<"Main.TFrame", "Header.TLabel", "Action.TButton", "Login.TLabel",
      "Login.TButton", "Login.TEntry", "Treeview.Heading">>

\* resolve_value without the fonts branch
resolve_value_nofonts(value, theme) ==
    IF isinstance_str(value) /\ startswith(value, "colors")
    THEN Lookup(theme.colors, split(value)[2])
    ELSE value

\* resolve_value taking split('.')[0], the domain, for the key
resolve_value_domain(value, theme) ==
    IF isinstance_str(value) /\ startswith(value, "colors")
    THEN Lookup(theme.colors, split(value)[1])
    ELSE IF isinstance_str(value) /\ startswith(value, "fonts")
    THEN Lookup(theme.fonts, split(value)[1])
    ELSE value

\* one value of a style, resolved against current_theme: the body of the
\* inner loop of setup_styles (split('.')[1] is the second segment)
resolve_value(value, theme) ==
    IF isinstance_str(value) /\ startswith(value, "colors")
    THEN Lookup(theme.colors, split(value)[2])
    ELSE IF isinstance_str(value) /\ startswith(value, "fonts")
    THEN Lookup(theme.fonts, split(value)[2])
    ELSE value

\* resolved_config of one style: the inner loop of setup_styles, which a
\* KeyError leaves before the style is applied
resolved_config(style_config, theme) ==
    LET cfg == [key \in DOMAIN style_config |-> resolve_value(style_config[key], theme)]
    IN  IF \E key \in DOMAIN cfg : cfg[key] = KeyError
        THEN [exc |-> "KeyError", cfg |-> EmptyDict]
        ELSE [exc |-> "None", cfg |-> cfg]

\* the outer loop of setup_styles from the i-th style on: each style is
\* resolved and applied in turn, and the first exception ends the loop with
\* the earlier styles applied
RECURSIVE setup_styles_from(_, _, _, _)
setup_styles_from(i, st, stys, theme) ==
    IF i > Len(StyleOrder) THEN Done(st)
    ELSE LET style_name == StyleOrder[i]
             r == resolved_config(stys[style_name], theme)
         IN  IF r.exc # "None" THEN Raised(r.exc, st)
             ELSE setup_styles_from(i + 1, configure(st, style_name, r.cfg), stys, theme)

\* setup_styles resolving against the theme that was active at construction
setup_styles_cached(ct, ths, st, stys) ==
    setup_styles_from(1, st, stys, get_current_theme("light", ths))

\* AppStyles.setup_styles()
setup_styles(ct, ths, st, stys) ==
    setup_styles_from(1, st, stys, get_current_theme(ct, ths))

---------------------------------------------------------------------------
(* The state machine: the application calls the public operations of the    *)
(* two objects in any order, on the single UI thread.                       *)

\* the style names get_style is called with: those of the style table and
\* two that are in no table
StyleNameInputs == {StyleOrder[i] : i \in 1..Len(StyleOrder)} \cup {"unknown", "TButton"}

\* the record of a call: its name and argument, what it raised, what it
\* returned, and current_theme as it was before the call
Called(op, arg, exc, ret) ==
    [op |-> op, arg |-> arg, exc |-> exc, ret |-> ret, before |-> current_theme]

\* what a lookup-only call raised, given the value its lookups produced
ExcOf(v) == IF v = KeyError THEN "KeyError" ELSE "None"

\* ThemeManager() and AppStyles(theme_manager)
Init ==
    /\ current_theme = "light"
    /\ themes = ThemeManager_themes
    /\ style = ttk_Style
    /\ styles = AppStyles_styles
    /\ call = [op |-> "__init__", arg |-> "", exc |-> "None", ret |-> None,
               before |-> "light"]
    /\ prevCall = [op |-> "__init__", arg |-> "", exc |-> "None", ret |-> None,
                   before |-> "light"]

\* setup_themes also taking the theme it left in use as the active one
SetupThemes_sync ==
    LET r == setup_themes(style, themes)
    IN  /\ style' = r.st
        /\ current_theme' = IF r.st.current \in DOMAIN themes THEN r.st.current
                             ELSE current_theme
        /\ call' = Called("setup_themes", "", r.exc, None)
        /\ prevCall' = call
        /\ UNCHANGED <<themes, styles>>

SetupThemes ==
    LET r == setup_themes(style, themes)
    IN  /\ style' = r.st
        /\ call' = Called("setup_themes", "", r.exc, None)
        /\ prevCall' = call
        /\ UNCHANGED <<current_theme, themes, styles>>

ToggleTheme ==
    LET r == toggle_theme(current_theme, style, themes)
    IN  /\ current_theme' = r.current_theme
        /\ style' = r.st
        /\ call' = Called("toggle_theme", "", r.exc, r.ret)
        /\ prevCall' = call
        /\ UNCHANGED <<themes, styles>>

GetCurrentTheme ==
    /\ LET ret == get_current_theme(current_theme, themes)
       IN  call' = Called("get_current_theme", "", ExcOf(ret),
                          IF ret = KeyError THEN None ELSE ret)
    /\ prevCall' = call
    /\ UNCHANGED <<current_theme, themes, style, styles>>

GetStyle ==
    \E style_name \in StyleNameInputs :
        /\ LET ret == get_style(current_theme, themes, style_name)
           IN  call' = Called("get_style", style_name, ExcOf(ret),
                              IF ret = KeyError THEN None ELSE ret)
        /\ prevCall' = call
        /\ UNCHANGED <<current_theme, themes, style, styles>>

SetupStyles ==
    LET r == setup_styles(current_theme, themes, style, styles)
    IN  /\ style' = r.st
        /\ call' = Called("setup_styles", "", r.exc, None)
        /\ prevCall' = call
        /\ UNCHANGED <<current_theme, themes, styles>>

Next ==
    \/ SetupThemes
    \/ ToggleTheme
    \/ GetCurrentTheme
    \/ GetStyle
    \/ SetupStyles

Spec == Init /\ [][Next]_vars

---------------------------------------------------------------------------
(* Properties *)

\* setup_themes has completed: both themes are registered with the engine
BothRegistered == {"light", "dark"} \subseteq style.themes

\* C1: toggle_theme is an involution on the active theme name: with both
\* themes registered, two toggle_theme calls in a row succeed, pass through
\* the other name and leave current_theme as it was before the two calls;
\* and current_theme is always "light" or "dark".
C1_ToggleInvolution ==
    /\ current_theme \in {"light", "dark"}
    /\ (call.op = "toggle_theme" /\ prevCall.op = "toggle_theme" /\ BothRegistered)
        => /\ call.exc = "None" /\ prevCall.exc = "None"
           /\ call.before # prevCall.before
           /\ current_theme = prevCall.before

\* dark -> light -> dark has happened
C1_Witness ==
    /\ call.op = "toggle_theme" /\ prevCall.op = "toggle_theme"
    /\ BothRegistered
    /\ prevCall.before = "dark" /\ call.before = "light" /\ current_theme = "dark"

\* C2: after a successful toggle_theme the value it returned is the fixed
\* table of the newly active name (name, colors and fonts of the light or of
\* the dark definition, never a mix), and a get_current_theme that follows
\* returns the same theme.
C2_ToggleReturnsActiveTheme ==
    /\ (call.op = "toggle_theme" /\ call.exc = "None")
        => /\ call.ret.name = current_theme
           /\ current_theme = "light"
                => /\ call.ret.colors = _get_light_theme.colors
                   /\ call.ret.fonts = _get_light_theme.fonts
           /\ current_theme = "dark"
                => /\ call.ret.colors = _get_dark_theme.colors
                   /\ call.ret.fonts = _get_dark_theme.fonts
    /\ (call.op = "get_current_theme" /\ prevCall.op = "toggle_theme"
            /\ prevCall.exc = "None")
        => /\ call.exc = "None"
           /\ call.ret = prevCall.ret
           /\ call.ret.name = current_theme

\* get_current_theme right after a successful toggle to "dark"
C2_Witness ==
    /\ call.op = "get_current_theme" /\ prevCall.op = "toggle_theme"
    /\ prevCall.exc = "None"
    /\ current_theme = "dark" /\ call.ret.name = "dark"

\* C3: every "colors.<key>" / "fonts.<key>" value of the style table names a
\* key of the colors / fonts table of both themes; resolving any style
\* against either theme raises nothing and leaves only literal values; and
\* setup_styles never fails a lookup and applies only literal values.
C3_ReferencesResolve ==
    LET symbolic(v) == v.t = "str" /\ Len(v.parts) >= 2
                           /\ v.parts[1] \in {"colors", "fonts"}
    IN  /\ \A th \in DOMAIN themes : \A sname \in DOMAIN styles :
            /\ \A key \in DOMAIN styles[sname] :
                LET v == styles[sname][key]
                IN  /\ (v.t = "str" /\ Len(v.parts) >= 2 /\ v.parts[1] = "colors")
                        => v.parts[2] \in DOMAIN themes[th].colors
                    /\ (v.t = "str" /\ Len(v.parts) >= 2 /\ v.parts[1] = "fonts")
                        => v.parts[2] \in DOMAIN themes[th].fonts
            /\ LET r == resolved_config(styles[sname], themes[th])
               IN  /\ r.exc = "None"
                   /\ DOMAIN r.cfg = DOMAIN styles[sname]
                   /\ \A key \in DOMAIN r.cfg : ~symbolic(r.cfg[key])
        /\ call.op = "setup_styles"
            => /\ call.exc = "None"
               /\ \A sname \in DOMAIN styles :
                    /\ sname \in DOMAIN style.conf[style.current]
                    /\ \A key \in DOMAIN styles[sname] :
                        /\ key \in DOMAIN style.conf[style.current][sname]
                        /\ ~symbolic(style.conf[style.current][sname][key])

\* setup_styles has run under each of the two themes in turn
C3_Witness ==
    /\ call.op = "setup_styles" /\ prevCall.op = "toggle_theme"
    /\ current_theme = "dark"
    /\ "Treeview.Heading" \in DOMAIN style.conf[style.current]

\* C4: get_style("Action.TButton") returns background = the active theme's
\* colors.button_bg, foreground = its colors.fg, font = its fonts.default
\* and padding = 5, for the theme active at the time of the call.
C4_ActionButtonStyle ==
    (call.op = "get_style" /\ call.arg = "Action.TButton")
        => /\ call.exc = "None"
           /\ DOMAIN call.ret = {"background", "foreground", "font", "padding"}
           /\ call.ret.background = themes[current_theme].colors.button_bg
           /\ call.ret.foreground = themes[current_theme].colors.fg
           /\ call.ret.font = themes[current_theme].fonts.default
           /\ call.ret.padding = IntVal(5)
           /\ current_theme = "light"
                => /\ call.ret.background = Str("#e9ecef")
                   /\ call.ret.foreground = Str("#212529")
           /\ current_theme = "dark"
                => /\ call.ret.background = Str("#3d3d3d")
                   /\ call.ret.foreground = Str("#e0e0e0")
           /\ call.ret.font = Tuple(<<"Segoe UI", 10>>)

\* get_style("Action.TButton") right after a toggle to "dark"
C4_Witness ==
    /\ call.op = "get_style" /\ call.arg = "Action.TButton"
    /\ prevCall.op = "toggle_theme" /\ prevCall.exc = "None"
    /\ current_theme = "dark"
    /\ call.ret.background = Str("#3d3d3d")

\* C5: get_style with a name outside the style table returns None, raises
\* nothing, and leaves current_theme, the theme tables, the style table and
\* the style engine unchanged.
C5_UnknownStyleIsNone ==
    [][(call'.op = "get_style" /\ call'.arg \notin DOMAIN styles)
        => /\ call'.ret = None
           /\ call'.exc = "None"
           /\ current_theme' = current_theme
           /\ themes' = themes
           /\ styles' = styles
           /\ style' = style]_vars

\* get_style("unknown") has returned None with "dark" active
C5_Witness ==
    /\ call.op = "get_style" /\ call.arg = "unknown"
    /\ call.ret = None /\ call.exc = "None"
    /\ current_theme = "dark" /\ BothRegistered

\* C6: setup_styles applies to "Header.TLabel" exactly font, background and
\* foreground: font ("Segoe UI", 12, "bold"), and "#f8f9fa" / "#4a6fa5" with
\* "light" active, "#2d2d2d" / "#5a86c2" with "dark" active.
C6_HeaderLabel ==
    call.op = "setup_styles"
        => /\ call.exc = "None"
           /\ "Header.TLabel" \in DOMAIN style.conf[style.current]
           /\ style.conf[style.current]["Header.TLabel"] =
                IF current_theme = "light"
                THEN [font       |-> Tuple(<<"Segoe UI", 12, "bold">>),
                      background |-> Str("#f8f9fa"),
                      foreground |-> Str("#4a6fa5")]
                ELSE [font       |-> Tuple(<<"Segoe UI", 12, "bold">>),
                      background |-> Str("#2d2d2d"),
                      foreground |-> Str("#5a86c2")]

\* the styles were resolved again after switching to "dark"
C6_Witness ==
    /\ call.op = "setup_styles" /\ prevCall.op = "toggle_theme"
    /\ prevCall.exc = "None" /\ prevCall.before = "light"
    /\ current_theme = "dark"
    /\ style.conf[style.current]["Header.TLabel"].background = Str("#2d2d2d")

\* C7: only toggle_theme changes current_theme (get_current_theme,
\* get_style, setup_themes and setup_styles leave it alone), and no
\* operation changes the two theme tables or the style table.
C7_OnlyToggleMutates ==
    [][/\ current_theme' # current_theme => call'.op = "toggle_theme"
       /\ call'.op \in {"get_current_theme", "get_style", "setup_themes",
                        "setup_styles"}
            => current_theme' = current_theme
       /\ themes' = themes /\ themes' = ThemeManager_themes
       /\ styles' = styles /\ styles' = AppStyles_styles]_vars

\* setup_themes and then setup_styles have run and left "light" active
C7_Witness ==
    /\ call.op = "setup_styles" /\ prevCall.op = "setup_themes"
    /\ prevCall.exc = "None"
    /\ current_theme = "light" /\ BothRegistered

\* C8: after setup_styles, each of the seven styles holds in the engine,
\* under its name, its properties resolved against the theme active at the
\* call: "colors.<key>" is the active theme's colors[<key>], "fonts.<key>"
\* its fonts[<key>], any other value is itself.
C8_SetupStylesResolves ==
    call.op = "setup_styles"
        => /\ call.exc = "None"
           /\ Cardinality(DOMAIN styles) = Len(StyleOrder)
           /\ \A sname \in DOMAIN styles :
                /\ sname \in DOMAIN style.conf[style.current]
                /\ \A key \in DOMAIN styles[sname] :
                    /\ key \in DOMAIN style.conf[style.current][sname]
                    /\ LET v == styles[sname][key]
                           applied == style.conf[style.current][sname][key]
                           active == themes[current_theme]
                           colorRef == \E k \in DOMAIN active.colors : v = Dotted("colors", k)
                           fontRef == \E k \in DOMAIN active.fonts : v = Dotted("fonts", k)
                       IN  /\ \A k \in DOMAIN active.colors :
                                v = Dotted("colors", k) => applied = active.colors[k]
                           /\ \A k \in DOMAIN active.fonts :
                                v = Dotted("fonts", k) => applied = active.fonts[k]
                           /\ (~colorRef /\ ~fontRef) => (v.t = "int" /\ applied = v)

\* setup_styles ran under "light", the theme was toggled, and it ran again
C8_Witness ==
    /\ call.op = "setup_styles" /\ prevCall.op = "toggle_theme"
    /\ prevCall.exc = "None" /\ current_theme = "dark"
    /\ style.conf[style.current]["Action.TButton"] =
            [font       |-> Tuple(<<"Segoe UI", 10>>),
             padding    |-> IntVal(5),
             background |-> Str("#3d3d3d"),
             foreground |-> Str("#e0e0e0")]

\* C9: once setup_themes has completed, the theme in use in the style engine
\* is the theme named by current_theme, also right after setup_themes and
\* before the first toggle_theme.
C9_EngineThemeIsCurrent ==
    BothRegistered => style.current = current_theme

\* C10: a toggle_theme that fails because the target theme is not
\* registered leaves current_theme as it was before the call.
C10_ToggleAllOrNothing ==
    (call.op = "toggle_theme" /\ call.exc # "None")
        => current_theme = call.before

====
